---- MODULE Spec2Model ----
(***************************************************************************)
(* The Olm event decryption pipeline of the crypto package                 *)
(* (DecryptOlmEvent, decryptOlmEvent, tryDecryptOlmEvent and               *)
(* createInboundSession), modelled as a state machine.  Every call to a    *)
(* collaborator (session store, account, session) is one step of the call  *)
(* that makes it.                                                          *)
(***************************************************************************)
EXTENDS Integers, Sequences, FiniteSets, TLC

\* ---------------------------------------------------------------- bounds
\* Number of DecryptOlmEvent calls made in one behaviour.
MaxCalls == 2
\* Number of sessions stored under each sender key before the first call.
MaxInitSessions == 1

\* ------------------------------------------------------------ the world
\* The goroutines that may call DecryptOlmEvent.
Procs == {1, 2}
\* Sender identity keys (curve25519) known to the session store.
SenderKeys == {"SENDER1", "SENDER2"}
\* User ids that appear as the sender of transport events and payloads.
Users == {"@alice", "@mallory"}
\* The user whose device holds each sender key; the transport events of a
\* sender key come from that user.
DeviceOwner == [k \in SenderKeys |-> IF k = "SENDER1" THEN "@alice" ELSE "@mallory"]
\* mach.client.UserID
LocalUserID == "@bob"
\* mach.account.IdentityKeys(): (ed25519 fingerprint key, curve25519 identity key)
IdentityKeys == [ed25519 |-> "ED_BOB", curve25519 |-> "ACC1"]
\* Values a payload may carry in recipient and recipient_keys.ed25519.
Recipients == {LocalUserID, "@mallory"}
Fingerprints == {IdentityKeys.ed25519, "ED_MALLORY"}
\* One-time keys of the account that a pre-key message can name.
OneTimeKeys == {"OTK7", "OTK8"}
\* Session ids: the sessions of the initial store and one per call.
SessionIDs == 1..(Cardinality(SenderKeys) * MaxInitSessions + MaxCalls)

\* id.AlgorithmOlmV1 and another algorithm tag
AlgorithmOlmV1 == "m.olm.v1.curve25519-aes-sha2"
AlgorithmMegolmV1 == "m.megolm.v1.aes-sha2"
\* id.OlmMsgTypePreKey, id.OlmMsgTypeMsg and a message type that is neither
OlmMsgTypePreKey == 0
OlmMsgTypeMsg == 1
OlmMsgTypeOther == 2
OlmMsgTypes == {OlmMsgTypePreKey, OlmMsgTypeMsg, OlmMsgTypeOther}

\* Event types: one the type registry knows and one it does not.
TypeMap == {"m.room_key"}
EventTypes == {"m.room_key", "x.unknown"}

\* ----------------------------------------------------------------- errors
\* The nil error and the nil *OlmEvent.
NilError == [cause |-> "nil", ctx |-> <<>>]
NilOlmEvent == [nil |-> TRUE]

UnsupportedAlgorithm == "unsupported event encryption algorithm"
NotEncryptedForMe == "olm event doesn't contain ciphertext for this device"
UnsupportedOlmMessageType == "unsupported olm message type"
DecryptionFailedWithMatchingSession == "decryption failed with matching session"
DecryptionFailedForNormalMessage == "decryption failed for normal message"
SenderMismatch == "mismatched sender in olm payload"
RecipientMismatch == "mismatched recipient in olm payload"
RecipientKeyMismatch == "mismatched recipient key in olm payload"
IncorrectEncryptedContentType == "event content is not instance of *event.EncryptedEventContent"
\* Errors of the collaborators.
StoreGetError == "store: GetSessions failed"
MatchCheckError == "olm: MatchesInboundSession failed"
SessionDecryptError == "olm: Decrypt failed"
AccountSessionError == "olm: NewInboundSessionFrom failed"
UnmarshalError == "json: cannot unmarshal payload"
ContentParseError == "json: cannot unmarshal content"
UnsupportedContentType == "unsupported content type"

\* errors.New(msg): an error with no context.
NewError(msg) == [cause |-> msg, ctx |-> <<>>]
\* errors.Wrap(err, msg): the same cause under one more layer of context.
\* errors.Wrap(nil, msg) is nil.
Wrap(err, msg) ==
    IF err = NilError THEN NilError
    ELSE [cause |-> err.cause, ctx |-> <<msg>> \o err.ctx]
\* errors.Cause(err)
Cause(err) == err.cause

\* ------------------------------------------------------------- payloads
\* What Session.Decrypt may return as plaintext: bytes that are not a JSON
\* OlmEvent, or the JSON of an OlmEvent.
Garbage ==
    [json |-> FALSE, sender |-> "", recipient |-> "", recipient_keys |-> "",
     type |-> "", content |-> ""]
Payloads ==
    [json : {TRUE}, sender : Users, recipient : Recipients,
     recipient_keys : Fingerprints, type : EventTypes,
     content : {"ok", "malformed"}]
Plaintexts == {Garbage} \cup Payloads
\* A nil plaintext ([]byte(nil)).
NilPlaintext == [nil |-> TRUE]

\* Content.ParseRaw(evtType): an unknown type is reported as unsupported
\* before the content is looked at.
ParseRaw(content, evtType) ==
    IF evtType \notin TypeMap THEN NewError(UnsupportedContentType)
    ELSE IF content = "malformed" THEN NewError(ContentParseError)
    ELSE NilError

\* event.IsUnsupportedContentType(err)
IsUnsupportedContentType(err) == Cause(err) = UnsupportedContentType


\* json.Unmarshal(plaintext, &olmEvt)
Unmarshal(pt) == IF pt.json THEN NilError ELSE NewError(UnmarshalError)

\* A (*OlmEvent, error) pair as the functions return it.
Ret(olmEvt, err) == [olmEvt |-> olmEvt, err |-> err]

\* Authenticate without the check of the recipient key.
Authenticate_NoKeyCheck(e, pt) ==
    IF e.sender # pt.sender THEN NewError(SenderMismatch)
    ELSE IF LocalUserID # pt.recipient THEN NewError(RecipientMismatch)
    ELSE NilError

\* Authenticate that checks the recipient before the sender.
Authenticate_RecipientFirst(e, pt) ==
    IF LocalUserID # pt.recipient THEN NewError(RecipientMismatch)
    ELSE IF e.sender # pt.sender THEN NewError(SenderMismatch)
    ELSE IF IdentityKeys.ed25519 # pt.recipient_keys
    THEN NewError(RecipientKeyMismatch)
    ELSE NilError

\* decryptOlmEvent: the checks of the payload against the transport event and
\* the local identity; the error of the first check that fails, or nil.
Authenticate(e, pt) ==
    IF e.sender # pt.sender THEN NewError(SenderMismatch)
    ELSE IF LocalUserID # pt.recipient THEN NewError(RecipientMismatch)
    ELSE IF IdentityKeys.ed25519 # pt.recipient_keys
    THEN NewError(RecipientKeyMismatch)
    ELSE NilError

\* ContentFatal without the exception for unsupported content types.
ContentFatal_Strict(err) == err # NilError

\* decryptOlmEvent: whether the error of Content.ParseRaw ends the call.
ContentFatal(err) == err # NilError /\ ~IsUnsupportedContentType(err)

\* decryptOlmEvent from the parse of the plaintext to the return: the
\* payload is parsed and authenticated, its content is parsed, and the
\* provenance is attached.
ParsePayload(e, senderKey, pt) ==
    IF Unmarshal(pt) # NilError
    THEN Ret(NilOlmEvent, Wrap(Unmarshal(pt), "failed to parse olm payload"))
    ELSE IF Authenticate(e, pt) # NilError
    THEN Ret(NilOlmEvent, Authenticate(e, pt))
    ELSE LET err == ParseRaw(pt.content, pt.type) IN
         IF ContentFatal(err)
         THEN Ret(NilOlmEvent,
                  Wrap(err, "failed to parse content of olm payload event"))
         ELSE Ret([Source |-> e, SenderKey |-> senderKey,
                   Sender |-> pt.sender, Recipient |-> pt.recipient,
                   RecipientKeys |-> pt.recipient_keys, Type |-> pt.type,
                   Content |-> [raw |-> pt.content, parsed |-> err = NilError]],
                  NilError)

\* ---------------------------------------------------------------- events
\* How one stored session responds to a ciphertext body: the answer of
\* MatchesInboundSession ("yes", "no" or "err") and whether Decrypt succeeds.
\* Only a pre-key message can match a session structurally, and a session a
\* pre-key message does not match cannot decrypt it.
Behaviours(olmType) ==
    IF olmType = OlmMsgTypePreKey
    THEN {[match |-> "yes", dec |-> TRUE], [match |-> "yes", dec |-> FALSE],
          [match |-> "no", dec |-> FALSE], [match |-> "err", dec |-> FALSE]}
    ELSE {[match |-> "no", dec |-> TRUE], [match |-> "no", dec |-> FALSE]}
\* How the account responds to a ciphertext body: whether
\* NewInboundSessionFrom can create a session from it and whether that
\* session then decrypts it.  Only a pre-key message can create a session.
FreshBehaviours(olmType) ==
    IF olmType = OlmMsgTypePreKey
    THEN {[create |-> TRUE, dec |-> TRUE], [create |-> TRUE, dec |-> FALSE],
          [create |-> FALSE, dec |-> FALSE]}
    ELSE {[create |-> FALSE, dec |-> FALSE]}
\* The one-time key a ciphertext body names (none in a normal message).
NoKey == "none"
BodyKeys(olmType) == IF olmType = OlmMsgTypePreKey THEN OneTimeKeys ELSE {NoKey}

\* The ciphertext bodies of type olmType, told apart by what the primitives
\* make of them; sids are the sessions stored under the sender key.
Bodies(sids, olmType) ==
    [otk : BodyKeys(olmType), beh : [sids -> Behaviours(olmType)],
     fresh : FreshBehaviours(olmType)]
\* The body of an event that is rejected before its body is looked at.
UnusedBody == [otk |-> NoKey, beh |-> <<>>, fresh |-> [create |-> FALSE, dec |-> FALSE]]

\* An event reaches the trial decryptor when none of the checks of
\* DecryptOlmEvent and the first check of decryptOlmEvent rejects it.
Accepted(parsed, algorithm, hasOwn, olmType) ==
    /\ parsed
    /\ algorithm = AlgorithmOlmV1
    /\ hasOwn
    /\ olmType \in {OlmMsgTypePreKey, OlmMsgTypeMsg}

\* The transport events: sender, whether the parsed content is an
\* EncryptedEventContent, its algorithm and sender key, whether OlmCiphertext
\* has an entry under the own identity key, and that entry's type and body.
Events(sidsOf) ==
    UNION {
      [sender : {DeviceOwner[k]}, parsed : {c}, algorithm : {a}, senderKey : {k},
       hasOwn : {o}, olmType : {t},
       body : IF Accepted(c, a, o, t) THEN Bodies(sidsOf[k], t) ELSE {UnusedBody}] :
      c \in BOOLEAN, a \in {AlgorithmOlmV1, AlgorithmMegolmV1},
      k \in SenderKeys, o \in BOOLEAN, t \in OlmMsgTypes }

\* The response of session sid to the body; a session the body says nothing
\* about neither matches nor decrypts it.
BehaviourOf(body, sid) ==
    IF sid \in DOMAIN body.beh THEN body.beh[sid]
    ELSE [match |-> "no", dec |-> FALSE]

\* ----------------------------------------------------------------- state
VARIABLES
    store,         \* mach.store: sender key -> the ordered session ids stored
    ratchet,       \* session id -> number of Decrypt calls made on the session
    nextSid,       \* the id the next created session gets
    account,       \* mach.account: the one-time keys not yet consumed
    savedAccount,  \* the account as last persisted by SaveAccount
    calls,         \* number of DecryptOlmEvent calls started
    pc,            \* per goroutine: where its call stands
    evt,           \* per goroutine: the transport event of its call
    sessions,      \* per goroutine: the slice GetSessions returned
    idx,           \* per goroutine: position of the range loop in sessions
    session,       \* per goroutine: the session createInboundSession made
    plaintext,     \* per goroutine: the plaintext a Decrypt returned
    ops,           \* per goroutine: the collaborator calls made, in order
    unwedged,      \* per goroutine: the markDeviceForUnwedging calls made
    result         \* per goroutine: the (*OlmEvent, error) returned

globals == <<store, ratchet, nextSid, account, savedAccount, calls>>
locals == <<pc, evt, sessions, idx, session, plaintext, ops, unwedged, result>>
vars == <<store, ratchet, nextSid, account, savedAccount, calls,
          pc, evt, sessions, idx, session, plaintext, ops, unwedged, result>>

\* The values of the locals of a goroutine that is not in a call.
NoEvent == [nil |-> TRUE]
NoSession == 0
NoResult == [olmEvt |-> NilOlmEvent, err |-> NilError]

\* The ids 1..n as a sequence starting after id base.
IdRange(base, n) == [i \in 1..n |-> base + i]
\* The set of elements of a sequence.
Range(seq) == {seq[i] : i \in 1..Len(seq)}

\* A record of one collaborator call.
Op(name, sid, ok) == [op |-> name, sid |-> sid, ok |-> ok]

\* The machine after construction: the store holds up to MaxInitSessions
\* sessions per sender key, no one-time key is consumed, the account is
\* saved, and no call is in progress.
Init ==
    /\ \E n1 \in 0..MaxInitSessions, n2 \in 0..MaxInitSessions :
         /\ store = [k \in SenderKeys |->
                       IF k = "SENDER1" THEN IdRange(0, n1) ELSE IdRange(n1, n2)]
         /\ nextSid = n1 + n2 + 1
    /\ ratchet = [s \in SessionIDs |-> 0]
    /\ account = OneTimeKeys
    /\ savedAccount = OneTimeKeys
    /\ calls = 0
    /\ pc = [p \in Procs |-> "idle"]
    /\ evt = [p \in Procs |-> NoEvent]
    /\ sessions = [p \in Procs |-> <<>>]
    /\ idx = [p \in Procs |-> 0]
    /\ session = [p \in Procs |-> NoSession]
    /\ plaintext = [p \in Procs |-> NilPlaintext]
    /\ ops = [p \in Procs |-> <<>>]
    /\ unwedged = [p \in Procs |-> <<>>]
    /\ result = [p \in Procs |-> NoResult]

\* ---------------------------------------------------------------- steps
\* The call of goroutine p returns r to its caller.
Return(p, r) ==
    /\ result' = [result EXCEPT ![p] = r]
    /\ pc' = [pc EXCEPT ![p] = "done"]

\* Goroutine p moves on to the step named label.
Goto(p, label) == pc' = [pc EXCEPT ![p] = label]

\* Goroutine p makes the collaborator call o.
Call(p, o) == ops' = [ops EXCEPT ![p] = Append(@, o)]

\* mach.markDeviceForUnwedging(user, senderKey)
markDeviceForUnwedging(p, user, senderKey) ==
    unwedged' = [unwedged EXCEPT ![p] = Append(@, <<user, senderKey>>)]

\* Session.Decrypt advances the state of the session, whatever its outcome.
Advance(sid) == ratchet' = [ratchet EXCEPT ![sid] = @ + 1]

\* Store.GetSessions(senderKey): the ordered sessions stored under the key.
StoredSessions(senderKey) == store[senderKey]

\* Store.AddSession(senderKey, session): the store with the session appended
\* to those of the key.
StoreWith(senderKey, sid) == [store EXCEPT ![senderKey] = Append(@, sid)]

\* Account.NewInboundSessionFrom creates a session when the body allows it
\* and the one-time key the body names is still unconsumed.
CanCreateSession(body) == body.fresh.create /\ body.otk \in account

\* The account after NewInboundSessionFrom consumed the one-time key of body.
Consumed(body) == account \ {body.otk}

\* Reject without the check of the message type.
Reject_NoTypeCheck(e) ==
    IF ~e.parsed THEN NewError(IncorrectEncryptedContentType)
    ELSE IF e.algorithm # AlgorithmOlmV1 THEN NewError(UnsupportedAlgorithm)
    ELSE IF ~e.hasOwn THEN NewError(NotEncryptedForMe)
    ELSE NilError

\* The error, if any, of the checks that DecryptOlmEvent and decryptOlmEvent
\* make before the trial decryptor is called.
Reject(e) ==
    IF ~e.parsed THEN NewError(IncorrectEncryptedContentType)
    ELSE IF e.algorithm # AlgorithmOlmV1 THEN NewError(UnsupportedAlgorithm)
    ELSE IF ~e.hasOwn THEN NewError(NotEncryptedForMe)
    ELSE IF e.olmType # OlmMsgTypePreKey /\ e.olmType # OlmMsgTypeMsg
    THEN NewError(UnsupportedOlmMessageType)
    ELSE NilError

\* Calls are serialized: a call starts when no other call is in progress,
\* and it is handed to the first goroutine.
Serialized(p) == \A q \in Procs : pc[q] = "idle" /\ p <= q

\* The call of p has started and has not returned.
InProgress(p) == pc[p] \notin {"idle", "done"}

\* DecryptOlmEvent(e) in goroutine p up to the call of tryDecryptOlmEvent.
Started(p, e) ==
    /\ pc[p] = "idle"
    /\ calls < MaxCalls
    /\ calls' = calls + 1
    /\ evt' = [evt EXCEPT ![p] = e]
    /\ IF Reject(e) # NilError
       THEN Return(p, Ret(NilOlmEvent, Reject(e)))
       ELSE Goto(p, "getSessions") /\ UNCHANGED result
    /\ UNCHANGED <<store, ratchet, nextSid, account, savedAccount>>
    /\ UNCHANGED <<sessions, idx, session, plaintext, ops, unwedged>>

\* A call of DecryptOlmEvent that the embedding system serialized.
DecryptOlmEvent(p) ==
    /\ Serialized(p)
    /\ \E e \in Events([k \in SenderKeys |-> Range(store[k])]) : Started(p, e)

\* A call of DecryptOlmEvent that the embedding system did not serialize: the
\* event of a call in progress is handed to the next goroutine as well.
DecryptOlmEventUnserialized(p) ==
    \E q \in Procs : q < p /\ InProgress(q) /\ Started(p, evt[q])

\* TrialError that marks the device whatever the error is.
TrialError_AlwaysUnwedges(p, err) ==
    /\ markDeviceForUnwedging(p, evt[p].sender, evt[p].senderKey)
    /\ Return(p, Ret(NilOlmEvent, Wrap(err, "failed to decrypt olm event")))

\* decryptOlmEvent when tryDecryptOlmEvent returned the error err.
TrialError(p, err) ==
    /\ IF err = NewError(DecryptionFailedWithMatchingSession)
       THEN markDeviceForUnwedging(p, evt[p].sender, evt[p].senderKey)
       ELSE UNCHANGED unwedged
    /\ Return(p, Ret(NilOlmEvent, Wrap(err, "failed to decrypt olm event")))

\* mach.store.GetSessions(senderKey) returned the stored sessions.
GetSessionsOK(p) ==
    /\ Call(p, Op("GetSessions", NoSession, TRUE))
    /\ sessions' = [sessions EXCEPT ![p] = StoredSessions(evt[p].senderKey)]
    /\ idx' = [idx EXCEPT ![p] = 1]
    /\ Goto(p, "range")
    /\ UNCHANGED <<unwedged, result>>

\* mach.store.GetSessions(senderKey) returned an error.
GetSessionsFailed(p) ==
    /\ Call(p, Op("GetSessions", NoSession, FALSE))
    /\ TrialError(p, Wrap(NewError(StoreGetError), "failed to get session for"))
    /\ UNCHANGED <<sessions, idx>>

\* GetSessions under a lock on the sender key: the store is read only when
\* no other call for the key is past this point.
GetSessions_Locked(p) ==
    /\ pc[p] = "getSessions"
    /\ \A q \in Procs \ {p} :
          (InProgress(q) /\ evt[q].senderKey = evt[p].senderKey) =>
             pc[q] = "getSessions"
    /\ (GetSessionsOK(p) \/ GetSessionsFailed(p))
    /\ UNCHANGED <<globals, evt, session, plaintext>>

\* tryDecryptOlmEvent: the read of the store.
GetSessions(p) ==
    /\ pc[p] = "getSessions"
    /\ (GetSessionsOK(p) \/ GetSessionsFailed(p))
    /\ UNCHANGED <<globals, evt, session, plaintext>>

\* TrialInconclusive without the early return for normal messages.
TrialInconclusive_AlwaysBootstrap(p) ==
    /\ Goto(p, "createInboundSession")
    /\ UNCHANGED <<unwedged, result>>

\* TrialInconclusive that marks the device before it looks at the message
\* type.
TrialInconclusive_MarksFirst(p) ==
    /\ markDeviceForUnwedging(p, evt[p].sender, evt[p].senderKey)
    /\ IF evt[p].olmType # OlmMsgTypePreKey
       THEN Return(p, Ret(NilOlmEvent, NewError(DecryptionFailedForNormalMessage)))
       ELSE Goto(p, "createInboundSession") /\ UNCHANGED result

\* decryptOlmEvent when tryDecryptOlmEvent returned (nil, nil).
TrialInconclusive(p) ==
    IF evt[p].olmType # OlmMsgTypePreKey
    THEN /\ markDeviceForUnwedging(p, evt[p].sender, evt[p].senderKey)
         /\ Return(p, Ret(NilOlmEvent, NewError(DecryptionFailedForNormalMessage)))
    ELSE /\ Goto(p, "createInboundSession")
         /\ UNCHANGED <<unwedged, result>>

\* tryDecryptOlmEvent: the head of the range loop over the sessions.
RangeSessions(p) ==
    /\ pc[p] = "range"
    /\ IF idx[p] > Len(sessions[p])
       THEN TrialInconclusive(p)
       ELSE /\ IF evt[p].olmType = OlmMsgTypePreKey
               THEN Goto(p, "matches")
               ELSE Goto(p, "decrypt")
            /\ UNCHANGED <<unwedged, result>>
    /\ UNCHANGED <<globals, evt, sessions, idx, session, plaintext, ops>>

\* Matched that goes on to Decrypt after a negative answer as well.
Matched_NoSkip(p, m) ==
    CASE m = "err" ->
           /\ TrialError(p, Wrap(NewError(MatchCheckError),
                  "failed to check if ciphertext matches inbound session"))
           /\ UNCHANGED idx
      [] m \in {"no", "yes"} ->
           /\ Goto(p, "decrypt")
           /\ UNCHANGED <<idx, unwedged, result>>

\* What tryDecryptOlmEvent does with the answer m of MatchesInboundSession.
Matched(p, m) ==
    CASE m = "err" ->
           /\ TrialError(p, Wrap(NewError(MatchCheckError),
                  "failed to check if ciphertext matches inbound session"))
           /\ UNCHANGED idx
      [] m = "no" ->
           /\ idx' = [idx EXCEPT ![p] = @ + 1]
           /\ Goto(p, "range")
           /\ UNCHANGED <<unwedged, result>>
      [] m = "yes" ->
           /\ Goto(p, "decrypt")
           /\ UNCHANGED <<idx, unwedged, result>>

\* tryDecryptOlmEvent: session.MatchesInboundSession(ciphertext) on the
\* session the loop is at.
MatchesInboundSession(p) ==
    /\ pc[p] = "matches"
    /\ LET sid == sessions[p][idx[p]]
           m == BehaviourOf(evt[p].body, sid).match
       IN /\ Call(p, Op("MatchesInboundSession", sid, m # "err"))
          /\ Matched(p, m)
    /\ UNCHANGED <<globals, evt, sessions, session, plaintext>>

\* Decrypted that marks the device for unwedging when the payload is refused.
Decrypted_UnwedgesOnError(p, pt) ==
    /\ plaintext' = [plaintext EXCEPT ![p] = pt]
    /\ Return(p, ParsePayload(evt[p], evt[p].senderKey, pt))
    /\ IF ParsePayload(evt[p], evt[p].senderKey, pt).err # NilError
       THEN markDeviceForUnwedging(p, evt[p].sender, evt[p].senderKey)
       ELSE UNCHANGED unwedged

\* Decrypted that attaches the own identity key as the sender key.
Decrypted_OwnKey(p, pt) ==
    /\ plaintext' = [plaintext EXCEPT ![p] = pt]
    /\ Return(p, ParsePayload(evt[p], IdentityKeys.curve25519, pt))
    /\ UNCHANGED unwedged

\* A Decrypt returned the plaintext pt: decryptOlmEvent parses and
\* authenticates it and returns.
Decrypted(p, pt) ==
    /\ plaintext' = [plaintext EXCEPT ![p] = pt]
    /\ Return(p, ParsePayload(evt[p], evt[p].senderKey, pt))
    /\ UNCHANGED unwedged

\* TrialDecryptFailed that goes on to the next session for every message type.
TrialDecryptFailed_Continues(p) ==
    /\ idx' = [idx EXCEPT ![p] = @ + 1]
    /\ Goto(p, "range")
    /\ UNCHANGED <<unwedged, result, plaintext>>

\* TrialDecryptFailed that ends the trial at the first failure for every
\* message type.
TrialDecryptFailed_Stops(p) ==
    /\ TrialError(p, NewError(DecryptionFailedWithMatchingSession))
    /\ UNCHANGED <<idx, plaintext>>

\* TrialDecryptFailed that confirms the failure of a PreKey message only once
\* no session is left to try.
TrialDecryptFailed_TriesRest(p) ==
    IF evt[p].olmType = OlmMsgTypePreKey /\ idx[p] >= Len(sessions[p])
    THEN /\ TrialError(p, NewError(DecryptionFailedWithMatchingSession))
         /\ UNCHANGED <<idx, plaintext>>
    ELSE /\ idx' = [idx EXCEPT ![p] = @ + 1]
         /\ Goto(p, "range")
         /\ UNCHANGED <<unwedged, result, plaintext>>

\* TrialDecryptFailed that falls back to the bootstrap when the matching
\* session fails to decrypt a PreKey message.
TrialDecryptFailed_Bootstraps(p) ==
    IF evt[p].olmType = OlmMsgTypePreKey
    THEN /\ Goto(p, "createInboundSession")
         /\ UNCHANGED <<idx, plaintext, unwedged, result>>
    ELSE /\ idx' = [idx EXCEPT ![p] = @ + 1]
         /\ Goto(p, "range")
         /\ UNCHANGED <<unwedged, result, plaintext>>

\* tryDecryptOlmEvent when the Decrypt of a stored session failed.
TrialDecryptFailed(p) ==
    IF evt[p].olmType = OlmMsgTypePreKey
    THEN /\ TrialError(p, NewError(DecryptionFailedWithMatchingSession))
         /\ UNCHANGED <<idx, plaintext>>
    ELSE /\ idx' = [idx EXCEPT ![p] = @ + 1]
         /\ Goto(p, "range")
         /\ UNCHANGED <<unwedged, result, plaintext>>

\* tryDecryptOlmEvent: session.Decrypt(ciphertext, olmType) on the session
\* the loop is at.
SessionDecrypt(p) ==
    /\ pc[p] = "decrypt"
    /\ LET sid == sessions[p][idx[p]]
           ok == BehaviourOf(evt[p].body, sid).dec
       IN /\ Call(p, Op("Decrypt", sid, ok))
          /\ Advance(sid)
          /\ IF ok
             THEN (\E pt \in Plaintexts : Decrypted(p, pt)) /\ UNCHANGED idx
             ELSE TrialDecryptFailed(p)
    /\ UNCHANGED <<store, nextSid, account, savedAccount, calls>>
    /\ UNCHANGED <<evt, sessions, session>>

\* BootstrapFailed that returns the error without marking the device.
BootstrapFailed_NoUnwedge(p) ==
    /\ UNCHANGED unwedged
    /\ Return(p, Ret(NilOlmEvent,
                     Wrap(NewError(AccountSessionError),
                          "failed to create new session from prekey message")))

\* decryptOlmEvent when createInboundSession returned an error.
BootstrapFailed(p) ==
    /\ markDeviceForUnwedging(p, evt[p].sender, evt[p].senderKey)
    /\ Return(p, Ret(NilOlmEvent,
                     Wrap(NewError(AccountSessionError),
                          "failed to create new session from prekey message")))

\* SessionCreated that goes on to AddSession without saving the account.
SessionCreated_NoSave(p, sid) ==
    /\ session' = [session EXCEPT ![p] = sid]
    /\ Goto(p, "addSession")
    /\ UNCHANGED <<unwedged, result>>

\* createInboundSession after NewInboundSessionFrom created session sid.
SessionCreated(p, sid) ==
    /\ session' = [session EXCEPT ![p] = sid]
    /\ Goto(p, "saveAccount")
    /\ UNCHANGED <<unwedged, result>>

\* createInboundSession: mach.account.NewInboundSessionFrom(senderKey,
\* ciphertext) up to the creation of the session from the one-time key the
\* ciphertext names.  The account is read here and written in
\* RemoveOneTimeKeys, with no lock held in between.
NewInboundSessionFrom(p) ==
    /\ pc[p] = "createInboundSession"
    /\ IF CanCreateSession(evt[p].body)
       THEN /\ Call(p, Op("NewInboundSessionFrom", nextSid, TRUE))
            /\ nextSid' = nextSid + 1
            /\ session' = [session EXCEPT ![p] = nextSid]
            /\ Goto(p, "removeOneTimeKeys")
            /\ UNCHANGED <<unwedged, result>>
       ELSE /\ Call(p, Op("NewInboundSessionFrom", NoSession, FALSE))
            /\ BootstrapFailed(p)
            /\ UNCHANGED <<nextSid, session>>
    /\ UNCHANGED <<store, ratchet, account, savedAccount, calls>>
    /\ UNCHANGED <<evt, sessions, idx, plaintext>>

\* mach.account.NewInboundSessionFrom from the created session to its
\* return: the one-time key the session was made from is removed from the
\* account.
RemoveOneTimeKeys(p) ==
    /\ pc[p] = "removeOneTimeKeys"
    /\ account' = Consumed(evt[p].body)
    /\ SessionCreated(p, session[p])
    /\ UNCHANGED <<store, ratchet, nextSid, savedAccount, calls>>
    /\ UNCHANGED <<evt, sessions, idx, plaintext, ops>>

\* createInboundSession: mach.SaveAccount() persists the account.
SaveAccount(p) ==
    /\ pc[p] = "saveAccount"
    /\ Call(p, Op("SaveAccount", NoSession, TRUE))
    /\ savedAccount' = account
    /\ Goto(p, "addSession")
    /\ UNCHANGED <<store, ratchet, nextSid, account, calls>>
    /\ UNCHANGED <<evt, sessions, idx, session, plaintext, unwedged, result>>

\* SessionAdded that returns the error of AddSession to the caller.
SessionAdded_Fatal(p, ok) ==
    IF ok
    THEN /\ Goto(p, "decryptNew")
         /\ UNCHANGED <<unwedged, result>>
    ELSE /\ Return(p, Ret(NilOlmEvent,
                          Wrap(NewError("store: AddSession failed"),
                               "failed to store created inbound session")))
         /\ UNCHANGED unwedged

\* createInboundSession after AddSession returned: a failure is logged and
\* the session is returned all the same.
SessionAdded(p, ok) ==
    /\ Goto(p, "decryptNew")
    /\ UNCHANGED <<unwedged, result>>

\* createInboundSession: mach.store.AddSession(senderKey, session), which
\* may fail and then stores nothing.
AddSession(p) ==
    /\ pc[p] = "addSession"
    /\ \E ok \in BOOLEAN :
         /\ Call(p, Op("AddSession", session[p], ok))
         /\ store' = IF ok THEN StoreWith(evt[p].senderKey, session[p]) ELSE store
         /\ SessionAdded(p, ok)
    /\ UNCHANGED <<ratchet, nextSid, account, savedAccount, calls>>
    /\ UNCHANGED <<evt, sessions, idx, session, plaintext>>

\* NewSessionDecryptFailed that treats the failure as the failure of a
\* matching stored session.
NewSessionDecryptFailed_AsMatching(p) ==
    /\ TrialError(p, NewError(DecryptionFailedWithMatchingSession))
    /\ UNCHANGED plaintext

\* NewSessionDecryptFailed that marks the device for unwedging.
NewSessionDecryptFailed_Unwedges(p) ==
    /\ markDeviceForUnwedging(p, evt[p].sender, evt[p].senderKey)
    /\ Return(p, Ret(NilOlmEvent,
                     Wrap(NewError(SessionDecryptError),
                          "failed to decrypt olm event with session created from prekey message")))
    /\ UNCHANGED plaintext

\* decryptOlmEvent when the Decrypt of the session just created failed.
NewSessionDecryptFailed(p) ==
    /\ Return(p, Ret(NilOlmEvent,
                     Wrap(NewError(SessionDecryptError),
                          "failed to decrypt olm event with session created from prekey message")))
    /\ UNCHANGED <<unwedged, plaintext>>

\* decryptOlmEvent: session.Decrypt(ciphertext, olmType) on the session just
\* created.
NewSessionDecrypt(p) ==
    /\ pc[p] = "decryptNew"
    /\ LET ok == evt[p].body.fresh.dec
       IN /\ Call(p, Op("Decrypt", session[p], ok))
          /\ Advance(session[p])
          /\ IF ok
             THEN \E pt \in Plaintexts : Decrypted(p, pt)
             ELSE NewSessionDecryptFailed(p)
    /\ UNCHANGED <<store, nextSid, account, savedAccount, calls>>
    /\ UNCHANGED <<evt, sessions, idx, session>>

\* The caller has the result; the goroutine is free for its next call.
CallReturns(p) ==
    /\ pc[p] = "done"
    /\ pc' = [pc EXCEPT ![p] = "idle"]
    /\ evt' = [evt EXCEPT ![p] = NoEvent]
    /\ sessions' = [sessions EXCEPT ![p] = <<>>]
    /\ idx' = [idx EXCEPT ![p] = 0]
    /\ session' = [session EXCEPT ![p] = NoSession]
    /\ plaintext' = [plaintext EXCEPT ![p] = NilPlaintext]
    /\ ops' = [ops EXCEPT ![p] = <<>>]
    /\ unwedged' = [unwedged EXCEPT ![p] = <<>>]
    /\ result' = [result EXCEPT ![p] = NoResult]
    /\ UNCHANGED globals

Next ==
    \/ \E p \in Procs : DecryptOlmEvent(p)
    \/ \E p \in Procs : GetSessions(p)
    \/ \E p \in Procs : RangeSessions(p)
    \/ \E p \in Procs : MatchesInboundSession(p)
    \/ \E p \in Procs : SessionDecrypt(p)
    \/ \E p \in Procs : NewInboundSessionFrom(p)
    \/ \E p \in Procs : RemoveOneTimeKeys(p)
    \/ \E p \in Procs : SaveAccount(p)
    \/ \E p \in Procs : AddSession(p)
    \/ \E p \in Procs : NewSessionDecrypt(p)
    \/ \E p \in Procs : CallReturns(p)

Spec == Init /\ [][Next]_vars

\* The machine when the embedding system does not serialize the calls.
NextUnserialized ==
    \/ Next
    \/ \E p \in Procs : DecryptOlmEventUnserialized(p)

SpecUnserialized == Init /\ [][NextUnserialized]_vars

\* The types of the state.
TypeOK ==
    /\ \A k \in SenderKeys : Range(store[k]) \subseteq 1..(nextSid - 1)
    /\ nextSid - 1 \in SessionIDs \cup {0}
    /\ account \subseteq OneTimeKeys
    /\ calls \in 0..MaxCalls
    /\ \A p \in Procs :
         pc[p] \in {"idle", "getSessions", "range", "matches", "decrypt",
                    "createInboundSession", "removeOneTimeKeys",
                    "saveAccount", "addSession",
                    "decryptNew", "done"}

\* ------------------------------------------------------------ properties
\* Vocabulary of the properties below.

\* The call of p has returned and its result is in result[p].
Returned(p) == pc[p] = "done"
\* The call of p returned an envelope.
HasEnvelope(p) == result[p].olmEvt # NilOlmEvent
\* The call of p returned an error.
HasError(p) == result[p].err # NilError
\* The error is wrapped in context by errors.Wrap.
IsWrapped(err) == err # NilError /\ err.ctx # <<>>
\* The positions in ops[p] of the calls named name.
OpsAt(p, name) == {i \in 1..Len(ops[p]) : ops[p][i].op = name}
\* The positions in ops[p] of the Decrypt calls.
DecryptsAt(p) == OpsAt(p, "Decrypt")
\* The call of p passed the checks made before the trial decryptor.
Tried(p) ==
    /\ pc[p] # "idle"
    /\ Accepted(evt[p].parsed, evt[p].algorithm, evt[p].hasOwn, evt[p].olmType)
\* The store returned the sessions to the call of p.
GotSessions(p) ==
    /\ Tried(p)
    /\ Len(ops[p]) >= 1
    /\ ops[p][1] = Op("GetSessions", NoSession, TRUE)
\* The one unwedging signal the call of p owes for its sender.
OwnSignal(p) == << <<evt[p].sender, evt[p].senderKey>> >>
\* The positions in sessions[p] of the sessions the body matches, errs on,
\* and decrypts with.
MatchingAt(p) ==
    {i \in 1..Len(sessions[p]) :
        BehaviourOf(evt[p].body, sessions[p][i]).match = "yes"}
ErringAt(p) ==
    {i \in 1..Len(sessions[p]) :
        BehaviourOf(evt[p].body, sessions[p][i]).match = "err"}
DecryptingAt(p) ==
    {i \in 1..Len(sessions[p]) : BehaviourOf(evt[p].body, sessions[p][i]).dec}
\* The three checks of the payload, stated on the plaintext.
SenderMatches(p) == plaintext[p].sender = evt[p].sender
RecipientMatches(p) == plaintext[p].recipient = LocalUserID
RecipientKeyMatches(p) == plaintext[p].recipient_keys = IdentityKeys.ed25519
\* A Decrypt of the call of p produced a plaintext.
HasPlaintext(p) == plaintext[p] # NilPlaintext

\* C1: an envelope is returned only if the payload's sender equals the
\* sender of the transport event, its recipient equals the local user id and
\* its recipient ed25519 key equals the fingerprint key of the local account;
\* when a plaintext was produced and one of the three differs, the call
\* returns an error and no envelope.  This holds for a stored session and for
\* a freshly created one.
C1_EnvelopeOnlyIfAuthenticated ==
    \A p \in Procs :
        Returned(p) =>
          /\ HasEnvelope(p) =>
               /\ HasPlaintext(p)
               /\ SenderMatches(p)
               /\ RecipientMatches(p)
               /\ RecipientKeyMatches(p)
          /\ (HasPlaintext(p) /\ ~(/\ SenderMatches(p)
                                   /\ RecipientMatches(p)
                                   /\ RecipientKeyMatches(p))) =>
               /\ HasError(p)
               /\ ~HasEnvelope(p)

\* An envelope is returned after a freshly created session decrypted the
\* message.
C1_Witness ==
    \E p \in Procs :
        Returned(p) /\ HasEnvelope(p) /\ session[p] # NoSession

\* A tampered payload (recipient is a third party) decrypted by a stored
\* session is rejected.
C1_WitnessTampered ==
    \E p \in Procs :
        /\ Returned(p) /\ HasPlaintext(p) /\ session[p] = NoSession
        /\ SenderMatches(p) /\ ~RecipientMatches(p) /\ HasError(p)

\* C2: for a Normal message and a stored session list (possibly empty) none
\* of whose sessions decrypts it, the call returns
\* DecryptionFailedForNormalMessage and emits one unwedging signal for
\* (event sender, sender key); a call for a Normal message never returns
\* DecryptionFailedWithMatchingSession and never invokes the bootstrap.
C2_NormalMessageExhaustion ==
    \A p \in Procs :
        (Tried(p) /\ evt[p].olmType = OlmMsgTypeMsg) =>
          /\ OpsAt(p, "NewInboundSessionFrom") = {}
          /\ Cause(result[p].err) # DecryptionFailedWithMatchingSession
          /\ (Returned(p) /\ GotSessions(p) /\ DecryptingAt(p) = {}) =>
               /\ result[p] = Ret(NilOlmEvent,
                                  NewError(DecryptionFailedForNormalMessage))
               /\ unwedged[p] = OwnSignal(p)

\* A Normal message failed on a non-empty list of stored sessions.
C2_Witness ==
    \E p \in Procs :
        /\ Returned(p) /\ GotSessions(p) /\ evt[p].olmType = OlmMsgTypeMsg
        /\ Len(sessions[p]) >= 1 /\ DecryptingAt(p) = {}
        /\ Cause(result[p].err) = DecryptionFailedForNormalMessage

\* C3: for a PreKey message that structurally matches exactly one stored
\* session whose decrypt fails (and is reached: no check before it errs), the
\* call returns an error whose cause is DecryptionFailedWithMatchingSession,
\* emits one unwedging signal for (event sender, sender key), calls Decrypt on
\* that session and on no other, and does not invoke the bootstrap.
C3_MatchingSessionFailure ==
    \A p \in Procs :
        (/\ Returned(p) /\ GotSessions(p)
         /\ evt[p].olmType = OlmMsgTypePreKey
         /\ Cardinality(MatchingAt(p)) = 1
         /\ MatchingAt(p) \cap DecryptingAt(p) = {}
         /\ \A i \in ErringAt(p) : \A m \in MatchingAt(p) : i > m) =>
          /\ ~HasEnvelope(p)
          /\ Cause(result[p].err) = DecryptionFailedWithMatchingSession
          /\ unwedged[p] = OwnSignal(p)
          /\ Cardinality(DecryptsAt(p)) = 1
          /\ \A i \in DecryptsAt(p) :
               \E m \in MatchingAt(p) : ops[p][i].sid = sessions[p][m]
          /\ OpsAt(p, "NewInboundSessionFrom") = {}

\* A PreKey message matched the second of two stored sessions, whose decrypt
\* failed.
C3_Witness ==
    \E p \in Procs :
        /\ Returned(p) /\ GotSessions(p)
        /\ evt[p].olmType = OlmMsgTypePreKey
        /\ Len(sessions[p]) = 2
        /\ MatchingAt(p) = {2}
        /\ DecryptingAt(p) = {}
        /\ Cause(result[p].err) = DecryptionFailedWithMatchingSession

\* The call of p created a session by NewInboundSessionFrom.
Bootstrapped(p) == session[p] # NoSession
\* The positions in ops[p] of the Decrypt calls on the created session.
NewDecryptsAt(p) == {i \in DecryptsAt(p) : ops[p][i].sid = session[p]}
\* The PreKey message of p matches none of the stored sessions, and no
\* structural check errs.
MatchesNoSession(p) ==
    /\ GotSessions(p)
    /\ evt[p].olmType = OlmMsgTypePreKey
    /\ MatchingAt(p) = {}
    /\ ErringAt(p) = {}

\* What C4 and C4_Original share: for a PreKey message that matches no
\* stored session the bootstrap is invoked once, a session it creates is the
\* one session Decrypt is called on, and when that decrypt fails the result is
\* a wrapped error whose cause is not DecryptionFailedWithMatchingSession.
BootstrapUsed(p) ==
    /\ Cardinality(OpsAt(p, "NewInboundSessionFrom")) = 1
    /\ Bootstrapped(p) =>
         /\ Cardinality(DecryptsAt(p)) = 1
         /\ NewDecryptsAt(p) = DecryptsAt(p)
    /\ (Bootstrapped(p) /\ ~evt[p].body.fresh.dec) =>
         /\ ~HasEnvelope(p)
         /\ IsWrapped(result[p].err)
         /\ Cause(result[p].err) # DecryptionFailedWithMatchingSession

\* C4 as stated: for a PreKey message that matches no stored session a new
\* session is bootstrapped and used; if the bootstrap succeeds and the new
\* session's decrypt fails, the result is a wrapped error (not
\* DecryptionFailedWithMatchingSession) and an unwedging signal is emitted.
C4_Original ==
    \A p \in Procs :
        (Returned(p) /\ MatchesNoSession(p)) =>
          /\ BootstrapUsed(p)
          /\ (Bootstrapped(p) /\ ~evt[p].body.fresh.dec) =>
               unwedged[p] = OwnSignal(p)

\* C4 (amended): for a PreKey message that matches no stored session a new
\* session is bootstrapped and used; if the bootstrap succeeds and the new
\* session's decrypt fails, the result is a wrapped error (not
\* DecryptionFailedWithMatchingSession) and no unwedging signal is emitted.
C4_BootstrapOnNoMatch ==
    \A p \in Procs :
        (Returned(p) /\ MatchesNoSession(p)) =>
          /\ BootstrapUsed(p)
          /\ (Bootstrapped(p) /\ ~evt[p].body.fresh.dec) =>
               unwedged[p] = <<>>

\* A PreKey message matched none of the stored sessions (one is stored), a
\* session was created, and its decrypt failed.
C4_Witness ==
    \E p \in Procs :
        /\ Returned(p) /\ MatchesNoSession(p) /\ Len(sessions[p]) >= 1
        /\ Bootstrapped(p) /\ ~evt[p].body.fresh.dec
        /\ HasError(p)

\* C5: when the session freshly created from a PreKey message fails to
\* decrypt it, the call ends there with a wrapped error: the failed Decrypt is
\* the last collaborator call (no second bootstrap, no decrypt of a stored
\* session after it) and no unwedging signal is emitted.
C5_NewSessionFailureIsTerminal ==
    \A p \in Procs :
        (/\ Bootstrapped(p)
         /\ \E i \in NewDecryptsAt(p) : ~ops[p][i].ok) =>
          /\ Returned(p)
          /\ ~HasEnvelope(p)
          /\ IsWrapped(result[p].err)
          /\ Cause(result[p].err) = SessionDecryptError
          /\ NewDecryptsAt(p) = {Len(ops[p])}
          /\ Cardinality(OpsAt(p, "NewInboundSessionFrom")) = 1
          /\ unwedged[p] = <<>>

\* A created session failed to decrypt while a session was stored under the
\* sender key before the call.
C5_Witness ==
    \E p \in Procs :
        /\ Returned(p) /\ Bootstrapped(p)
        /\ Len(sessions[p]) >= 1
        /\ \E i \in NewDecryptsAt(p) : ~ops[p][i].ok

\* An event that DecryptOlmEvent rejects for its algorithm, for the missing
\* ciphertext entry or for its message type.
RejectedInput(e) ==
    /\ e.parsed
    /\ \/ e.algorithm # AlgorithmOlmV1
       \/ ~e.hasOwn
       \/ e.olmType \notin {OlmMsgTypePreKey, OlmMsgTypeMsg}

\* C6: a call that rejects its event for an unsupported algorithm, for the
\* missing ciphertext entry under the local identity key or for an unsupported
\* message type returns in its first step with one of those three errors and
\* has made no collaborator call, emitted no unwedging signal, and left the
\* store, the sessions, the account and the saved account as they were.
C6_RejectionHasNoSideEffect ==
    [][\A p \in Procs :
         (pc[p] = "idle" /\ pc'[p] # "idle" /\ RejectedInput(evt'[p])) =>
           /\ pc'[p] = "done"
           /\ result'[p].olmEvt = NilOlmEvent
           /\ result'[p].err \in {NewError(UnsupportedAlgorithm),
                                  NewError(NotEncryptedForMe),
                                  NewError(UnsupportedOlmMessageType)}
           /\ ops'[p] = <<>>
           /\ unwedged'[p] = <<>>
           /\ store' = store
           /\ ratchet' = ratchet
           /\ nextSid' = nextSid
           /\ account' = account
           /\ savedAccount' = savedAccount]_vars

\* An event of unsupported message type was rejected while a session was
\* stored under its sender key.
C6_Witness ==
    \E p \in Procs :
        /\ Returned(p)
        /\ result[p].err = NewError(UnsupportedOlmMessageType)
        /\ store[evt[p].senderKey] # <<>>
        /\ ops[p] = <<>>

\* C7: a call that ends with SenderMismatch, RecipientMismatch or
\* RecipientKeyMismatch emits no unwedging signal, whether a stored session
\* or a freshly created one decrypted the message.
C7_MismatchNeverUnwedges ==
    \A p \in Procs :
        (/\ Returned(p)
         /\ Cause(result[p].err) \in
              {SenderMismatch, RecipientMismatch, RecipientKeyMismatch}) =>
          /\ unwedged[p] = <<>>
          /\ ~HasEnvelope(p)

\* A freshly created session decrypted a payload whose recipient key is not
\* the local fingerprint key.
C7_Witness ==
    \E p \in Procs :
        /\ Returned(p) /\ Bootstrapped(p)
        /\ result[p].err = NewError(RecipientKeyMismatch)

\* Some SaveAccount call lies strictly between positions i and j of ops[p].
SavedBetween(p, i, j) == \E k \in OpsAt(p, "SaveAccount") : i < k /\ k < j

\* C8: in every call where NewInboundSessionFrom succeeds, SaveAccount is
\* called after it and strictly before AddSession and before the Decrypt of
\* the new session, and from then on the saved account holds the one-time key
\* of the message as consumed.
C8_AccountSavedBeforeSessionUsed ==
    \A p \in Procs :
        \A i \in OpsAt(p, "NewInboundSessionFrom") :
            ops[p][i].ok =>
              /\ \A j \in OpsAt(p, "AddSession") : SavedBetween(p, i, j)
              /\ \A j \in NewDecryptsAt(p) : SavedBetween(p, i, j)
              /\ (OpsAt(p, "AddSession") # {} \/ NewDecryptsAt(p) # {}) =>
                   evt[p].body.otk \notin savedAccount
              /\ Returned(p) =>
                   /\ OpsAt(p, "AddSession") # {}
                   /\ NewDecryptsAt(p) # {}

\* A created session was stored and decrypted the message.
C8_Witness ==
    \E p \in Procs :
        /\ Returned(p) /\ Bootstrapped(p) /\ HasEnvelope(p)
        /\ session[p] \in Range(store[evt[p].senderKey])
        /\ evt[p].body.otk \notin savedAccount

\* The AddSession call of p failed.
AddSessionFailed(p) == \E i \in OpsAt(p, "AddSession") : ~ops[p][i].ok

\* What a call returns once it has created a session, as a function of the
\* event and of what the new session's Decrypt returns; the outcome of
\* AddSession is no argument of it.
AfterBootstrap(e, pt) ==
    IF e.body.fresh.dec
    THEN ParsePayload(e, e.senderKey, pt)
    ELSE Ret(NilOlmEvent,
             Wrap(NewError(SessionDecryptError),
                  "failed to decrypt olm event with session created from prekey message"))

\* C9: a failure of AddSession after a successful bootstrap does not surface:
\* the call goes on to decrypt with the in-memory session, and it returns the
\* result and emits the unwedging signals (none) that the same event and the
\* same plaintext give when AddSession succeeds.
C9_AddSessionFailureSwallowed ==
    \A p \in Procs :
        (Bootstrapped(p) /\ OpsAt(p, "AddSession") # {}) =>
          /\ pc[p] \in {"decryptNew", "done"}
          /\ Returned(p) =>
               /\ Cardinality(NewDecryptsAt(p)) = 1
               /\ \A i \in NewDecryptsAt(p) :
                    \A j \in OpsAt(p, "AddSession") : j < i
               /\ result[p] = AfterBootstrap(evt[p], plaintext[p])
               /\ unwedged[p] = <<>>
               /\ HasEnvelope(p) # HasError(p)

\* AddSession failed, the session is not in the store, and the call returned
\* an envelope all the same.
C9_Witness ==
    \E p \in Procs :
        /\ Returned(p) /\ Bootstrapped(p) /\ AddSessionFailed(p)
        /\ session[p] \notin Range(store[evt[p].senderKey])
        /\ HasEnvelope(p)

\* The payload of p was parsed and passed the three identity checks.
Authenticated(p) ==
    /\ HasPlaintext(p)
    /\ plaintext[p].json
    /\ SenderMatches(p) /\ RecipientMatches(p) /\ RecipientKeyMatches(p)

\* C10: an authenticated payload whose content type the type registry does
\* not know is returned as an envelope with no error and its content kept
\* raw; an authenticated payload of a known type whose content fails to
\* parse gives a wrapped error and no envelope.
C10_UnknownContentTypeTolerated ==
    \A p \in Procs :
        (Returned(p) /\ Authenticated(p)) =>
          /\ plaintext[p].type \notin TypeMap =>
               /\ HasEnvelope(p)
               /\ ~HasError(p)
               /\ result[p].olmEvt.Type = plaintext[p].type
               /\ result[p].olmEvt.Content =
                    [raw |-> plaintext[p].content, parsed |-> FALSE]
          /\ (plaintext[p].type \in TypeMap
              /\ plaintext[p].content = "malformed") =>
               /\ ~HasEnvelope(p)
               /\ IsWrapped(result[p].err)
               /\ Cause(result[p].err) = ContentParseError
          /\ (plaintext[p].type \in TypeMap
              /\ plaintext[p].content = "ok") => HasEnvelope(p)

\* An authenticated payload of unknown type was returned as an envelope.
C10_Witness ==
    \E p \in Procs :
        /\ Returned(p) /\ Authenticated(p)
        /\ plaintext[p].type \notin TypeMap
        /\ HasEnvelope(p)

\* C11: every envelope a call returns has its Source set to the transport
\* event of the call and its SenderKey set to the sender key of the wire
\* envelope, and its Sender, Recipient, RecipientKeys and Type are those of
\* the decrypted payload; this holds whether a stored session or a freshly
\* created one decrypted the message.
C11_EnvelopeProvenance ==
    \A p \in Procs :
        (Returned(p) /\ HasEnvelope(p)) =>
          /\ HasPlaintext(p)
          /\ plaintext[p].json
          /\ ~HasError(p)
          /\ result[p].olmEvt.Source = evt[p]
          /\ result[p].olmEvt.SenderKey = evt[p].senderKey
          /\ result[p].olmEvt.Sender = plaintext[p].sender
          /\ result[p].olmEvt.Recipient = plaintext[p].recipient
          /\ result[p].olmEvt.RecipientKeys = plaintext[p].recipient_keys
          /\ result[p].olmEvt.Type = plaintext[p].type
          /\ result[p].olmEvt.Sender = evt[p].sender
          /\ result[p].olmEvt.Recipient = LocalUserID
          /\ result[p].olmEvt.RecipientKeys = IdentityKeys.ed25519

\* The scenario of the spec: one stored session under the sender key does not
\* match the PreKey message, a session is created, and the envelope of a
\* payload of known type comes back with the sender key of the event.
C11_Witness ==
    \E p \in Procs :
        /\ Returned(p) /\ HasEnvelope(p) /\ Bootstrapped(p)
        /\ Len(sessions[p]) = 1
        /\ result[p].olmEvt.Type \in TypeMap
        /\ result[p].olmEvt.SenderKey = "SENDER1"

\* The Decrypt calls of p, in the order made.
IsDecrypt(o) == o.op = "Decrypt"
DecryptOps(p) == SelectSeq(ops[p], IsDecrypt)
\* The least element of a non-empty set of positions.
First(S) == CHOOSE i \in S : \A j \in S : i <= j
\* The call of p is for a Normal message and has the stored sessions.
NormalTrial(p) == GotSessions(p) /\ evt[p].olmType = OlmMsgTypeMsg

\* The trial of a Normal message as far as it has got: the sessions are
\* attempted in store order, each once, each with the outcome the session has
\* for this body, and no session is attempted after a success.  Once the call
\* has returned, the attempts stop at the first session that decrypts (whose
\* plaintext decides the result), or cover all sessions when none does.
NormalTrialInOrder(p) ==
    NormalTrial(p) =>
      LET D == DecryptOps(p) IN
      /\ Len(D) <= Len(sessions[p])
      /\ \A i \in 1..Len(D) :
           /\ D[i].sid = sessions[p][i]
           /\ D[i].ok = BehaviourOf(evt[p].body, sessions[p][i]).dec
           /\ i < Len(D) => ~D[i].ok
      /\ (Returned(p) /\ DecryptingAt(p) # {}) =>
           /\ Len(D) = First(DecryptingAt(p))
           /\ D[Len(D)].ok
           /\ HasPlaintext(p)
           /\ result[p] = ParsePayload(evt[p], evt[p].senderKey, plaintext[p])
      /\ (Returned(p) /\ DecryptingAt(p) = {}) =>
           /\ Len(D) = Len(sessions[p])
           /\ ~HasPlaintext(p)

\* A step changes the state of a session only by one Decrypt call on that
\* very session.
OnlyAttemptedSessionChanges ==
    \A sid \in SessionIDs :
        ratchet'[sid] # ratchet[sid] =>
          /\ ratchet'[sid] = ratchet[sid] + 1
          /\ \E p \in Procs :
               /\ Len(ops'[p]) = Len(ops[p]) + 1
               /\ ops'[p][Len(ops'[p])].op = "Decrypt"
               /\ ops'[p][Len(ops'[p])].sid = sid

\* C13: for a Normal message, trial decryption returns the plaintext of the
\* first session in store order whose decrypt succeeds: every session before
\* it is attempted exactly once, its failure neither stops the iteration nor
\* changes the outcome of the later sessions, no session after it is
\* attempted, and an attempt changes no other session's state.
C13_FirstSuccessWins ==
    [][/\ \A p \in Procs : NormalTrialInOrder(p)'
       /\ OnlyAttemptedSessionChanges]_vars

\* A Normal message failed on the first stored session and was decrypted by
\* the second, whose state alone moved with the first's.
C13_Witness ==
    \E p \in Procs :
        /\ Returned(p) /\ NormalTrial(p)
        /\ Len(sessions[p]) = 2
        /\ DecryptingAt(p) = {2}
        /\ HasPlaintext(p)
        /\ Len(DecryptOps(p)) = 2

\* The call of p is for a PreKey message that passed the first checks.
PreKeyTrial(p) == Tried(p) /\ evt[p].olmType = OlmMsgTypePreKey
\* The answer session sid has for the structural check of the body of p.
MatchOf(p, sid) == BehaviourOf(evt[p].body, sid).match

\* Every Decrypt call of a PreKey call is on the session the call created,
\* or on a stored session right after its structural check answered yes; a
\* session whose check answered no or failed is not decrypted with.
DecryptOnlyAfterMatch(p) ==
    PreKeyTrial(p) =>
      /\ \A i \in DecryptsAt(p) :
           \/ Bootstrapped(p) /\ ops[p][i].sid = session[p]
           \/ /\ i > 1
              /\ ops[p][i - 1] = Op("MatchesInboundSession", ops[p][i].sid, TRUE)
              /\ MatchOf(p, ops[p][i].sid) = "yes"
      /\ \A j \in OpsAt(p, "MatchesInboundSession") :
           MatchOf(p, ops[p][j].sid) # "yes" =>
             \A i \in DecryptsAt(p) : ops[p][i].sid # ops[p][j].sid

\* A step of a PreKey call changes the state of no session but the created
\* one and those whose structural check is positive.
UnmatchedSessionsUntouched ==
    \A p \in Procs :
        (PreKeyTrial(p) /\ ops'[p] # ops[p]) =>
          \A sid \in SessionIDs :
              ratchet'[sid] # ratchet[sid] =>
                \/ sid = session[p] /\ sid # NoSession
                \/ MatchOf(p, sid) = "yes"

\* C14: for a PreKey message, a stored session whose structural check is
\* negative is never passed to Decrypt, so its state is unchanged by the
\* call; Decrypt is called only on a session whose check was positive or on
\* the freshly created session.
C14_NoDecryptWithoutMatch ==
    [][/\ \A p \in Procs : DecryptOnlyAfterMatch(p)'
       /\ UnmatchedSessionsUntouched]_vars

\* A PreKey call checked a stored session that does not match, left it
\* untouched, and decrypted with the session it created.
C14_Witness ==
    \E p \in Procs :
        /\ Returned(p) /\ PreKeyTrial(p) /\ Bootstrapped(p)
        /\ Len(sessions[p]) >= 1
        /\ \A i \in 1..Len(sessions[p]) :
             /\ MatchOf(p, sessions[p][i]) = "no"
             /\ ratchet[sessions[p][i]] = 0
        /\ Cardinality(OpsAt(p, "MatchesInboundSession")) = Len(sessions[p])
        /\ NewDecryptsAt(p) # {}

\* The positions in sessions[p] the loop never reaches once it stops at f.
After(p, f) == {i \in 1..Len(sessions[p]) : i > f}
\* The sessions of p that some collaborator call was made on.
Touched(p) == {ops[p][i].sid : i \in 1..Len(ops[p])} \ {NoSession}

\* C15: when stored sessions match a PreKey message structurally, only the
\* first of them in store order is tried: if its decrypt fails the call ends
\* with DecryptionFailedWithMatchingSession, also when a later matching
\* session decrypts the message, and the sessions after it are neither
\* checked nor decrypted with.
C15_OnlyFirstMatchTried ==
    \A p \in Procs :
        (/\ Returned(p) /\ GotSessions(p)
         /\ evt[p].olmType = OlmMsgTypePreKey
         /\ MatchingAt(p) # {}
         /\ First(MatchingAt(p)) \notin DecryptingAt(p)
         /\ \A i \in ErringAt(p) : i > First(MatchingAt(p))) =>
          LET f == First(MatchingAt(p)) IN
          /\ ~HasEnvelope(p)
          /\ Cause(result[p].err) = DecryptionFailedWithMatchingSession
          /\ \A i \in After(p, f) : sessions[p][i] \notin Touched(p)
          /\ \A i \in DecryptsAt(p) : ops[p][i].sid = sessions[p][f]
          /\ Cardinality(DecryptsAt(p)) = 1
          /\ ~Bootstrapped(p)

\* Two stored sessions match the PreKey message, the first fails to decrypt
\* it, the second would decrypt it, and the call ends with the confirmed
\* failure.
C15_Witness ==
    \E p \in Procs :
        /\ Returned(p) /\ GotSessions(p)
        /\ evt[p].olmType = OlmMsgTypePreKey
        /\ MatchingAt(p) = {1, 2}
        /\ DecryptingAt(p) = {2}
        /\ Cause(result[p].err) = DecryptionFailedWithMatchingSession

\* The positions in ops[p] where NewInboundSessionFrom returned an error.
CreateFailedAt(p) == {i \in OpsAt(p, "NewInboundSessionFrom") : ~ops[p][i].ok}

\* C16: when NewInboundSessionFrom fails, it is the last collaborator call of
\* the call: the account is not saved, no session is added to the store, which
\* still holds the sessions the trial read, Decrypt is called on no new
\* session, one unwedging signal is emitted for the sender, and the call has
\* returned a wrapped error and no envelope.
C16_FailedBootstrapStopsTheCall ==
    \A p \in Procs :
        \A i \in CreateFailedAt(p) :
            /\ Returned(p)
            /\ i = Len(ops[p])
            /\ OpsAt(p, "SaveAccount") = {}
            /\ OpsAt(p, "AddSession") = {}
            /\ StoredSessions(evt[p].senderKey) = sessions[p]
            /\ ~Bootstrapped(p)
            /\ \A j \in DecryptsAt(p) :
                  \E n \in 1..Len(sessions[p]) : ops[p][j].sid = sessions[p][n]
            /\ unwedged[p] = OwnSignal(p)
            /\ ~HasEnvelope(p)
            /\ IsWrapped(result[p].err)
            /\ Cause(result[p].err) = AccountSessionError

\* A PreKey message whose one-time key the account cannot make a session
\* from: the bootstrap failed and the call has returned.
C16_Witness ==
    \E p \in Procs :
        /\ Returned(p)
        /\ evt[p].olmType = OlmMsgTypePreKey
        /\ CreateFailedAt(p) # {}
        /\ HasError(p)
        /\ unwedged[p] = OwnSignal(p)

\* The call of p returned the unwrapped error err and made no collaborator
\* call.
RejectedWith(p, err) ==
    /\ result[p] = Ret(NilOlmEvent, NewError(err))
    /\ ops[p] = <<>>
\* A Decrypt of the call of p produced a plaintext that parses as a payload.
HasPayload(p) == HasPlaintext(p) /\ plaintext[p].json

\* C17: the first failing check decides the error.  Before any collaborator
\* is called: the content type, then the algorithm, then the ciphertext entry
\* under the own identity key, then the message type.  On the decrypted
\* payload: the sender, then the recipient, then the recipient key; so a
\* payload failing the sender and the recipient check gives SenderMismatch,
\* and a payload with the right sender and a third party as recipient gives
\* RecipientMismatch.
C17_FirstFailingCheckDecides ==
    \A p \in Procs :
        Returned(p) =>
          LET e == evt[p] IN
          /\ ~e.parsed => RejectedWith(p, IncorrectEncryptedContentType)
          /\ (e.parsed /\ e.algorithm # AlgorithmOlmV1) =>
                RejectedWith(p, UnsupportedAlgorithm)
          /\ (e.parsed /\ e.algorithm = AlgorithmOlmV1 /\ ~e.hasOwn) =>
                RejectedWith(p, NotEncryptedForMe)
          /\ (/\ e.parsed /\ e.algorithm = AlgorithmOlmV1 /\ e.hasOwn
              /\ e.olmType \notin {OlmMsgTypePreKey, OlmMsgTypeMsg}) =>
                RejectedWith(p, UnsupportedOlmMessageType)
          /\ HasPayload(p) =>
               /\ ~SenderMatches(p) =>
                    result[p] = Ret(NilOlmEvent, NewError(SenderMismatch))
               /\ (SenderMatches(p) /\ ~RecipientMatches(p)) =>
                    result[p] = Ret(NilOlmEvent, NewError(RecipientMismatch))
               /\ (/\ SenderMatches(p) /\ RecipientMatches(p)
                   /\ ~RecipientKeyMatches(p)) =>
                    result[p] = Ret(NilOlmEvent, NewError(RecipientKeyMismatch))

\* A payload that names another sender and a third party as recipient: the
\* call returned SenderMismatch.
C17_Witness ==
    \E p \in Procs :
        /\ Returned(p)
        /\ HasPayload(p)
        /\ ~SenderMatches(p)
        /\ plaintext[p].recipient = "@mallory"
        /\ Cause(result[p].err) = SenderMismatch

\* A payload with the right sender and a third party as recipient: the call
\* returned RecipientMismatch.
C17_WitnessThirdParty ==
    \E p \in Procs :
        /\ Returned(p)
        /\ HasPayload(p)
        /\ SenderMatches(p)
        /\ plaintext[p].recipient = "@mallory"
        /\ RecipientKeyMatches(p)
        /\ Cause(result[p].err) = RecipientMismatch

\* The positions in ops[p] where the store failed to return the sessions or
\* a structural match check returned an error.
InfraFailedAt(p) ==
    {i \in OpsAt(p, "GetSessions") \cup OpsAt(p, "MatchesInboundSession") :
        ~ops[p][i].ok}

\* C18: when GetSessions or a MatchesInboundSession check returns an error,
\* it is the last collaborator call of the call: no further session is
\* checked or decrypted with, no bootstrap is attempted, no unwedging signal
\* is emitted, and the call has returned a wrapped error whose cause is that
\* failure, neither DecryptionFailedWithMatchingSession nor
\* DecryptionFailedForNormalMessage, and no envelope.
C18_InfrastructureFailureEndsTheCall ==
    \A p \in Procs :
        \A i \in InfraFailedAt(p) :
            /\ Returned(p)
            /\ i = Len(ops[p])
            /\ OpsAt(p, "NewInboundSessionFrom") = {}
            /\ ~Bootstrapped(p)
            /\ unwedged[p] = <<>>
            /\ ~HasEnvelope(p)
            /\ IsWrapped(result[p].err)
            /\ Cause(result[p].err) =
                  (IF ops[p][i].op = "GetSessions" THEN StoreGetError
                                                   ELSE MatchCheckError)
            /\ Cause(result[p].err) \notin
                  {DecryptionFailedWithMatchingSession,
                   DecryptionFailedForNormalMessage}

\* The match check of the first of two stored sessions returned an error,
\* and the call has returned without reaching the second.
C18_Witness ==
    \E p \in Procs :
        /\ Returned(p)
        /\ Len(sessions[p]) = 2
        /\ 1 \in ErringAt(p)
        /\ InfraFailedAt(p) # {}
        /\ sessions[p][2] \notin Touched(p)
        /\ HasError(p)

\* The store failed to return the sessions, and the call has returned.
C18_WitnessStore ==
    \E p \in Procs :
        /\ Returned(p)
        /\ ops[p] = <<Op("GetSessions", NoSession, FALSE)>>
        /\ HasError(p)

\* C19: a call emits at most one unwedging signal, and only for the sender
\* and the sender key of its event; a call that has not returned has no
\* result, and a call that has returned has an envelope or an error and not
\* both; an envelope comes with no unwedging signal, and only from a payload
\* that passed the three identity checks and whose content, if its type is
\* known, parsed.
C19_OneSignalOneOutcome ==
    \A p \in Procs :
        /\ Len(unwedged[p]) <= 1
        /\ \A i \in 1..Len(unwedged[p]) :
              unwedged[p][i] = <<evt[p].sender, evt[p].senderKey>>
        /\ (pc[p] # "done") => result[p] = NoResult
        /\ Returned(p) => (HasEnvelope(p) <=> ~HasError(p))
        /\ HasEnvelope(p) =>
              /\ unwedged[p] = <<>>
              /\ Authenticated(p)
              /\ ParseRaw(plaintext[p].content, plaintext[p].type)
                    \in {NilError, NewError(UnsupportedContentType)}
        /\ unwedged[p] # <<>> => (Returned(p) /\ HasError(p))

\* The last call of a run emitted its one unwedging signal for a PreKey
\* message and returned an error.
C19_Witness ==
    \E p \in Procs :
        /\ Returned(p)
        /\ unwedged[p] = OwnSignal(p)
        /\ HasError(p) /\ ~HasEnvelope(p)
        /\ evt[p].olmType = OlmMsgTypePreKey
        /\ calls = MaxCalls

\* The call of p is about to add the session it created: its message is
\* PreKey, the trial over the stored sessions was inconclusive, and
\* NewInboundSessionFrom created the session.
MayAddSession(p) ==
    /\ pc[p] = "addSession"
    /\ evt[p].olmType = OlmMsgTypePreKey
    /\ GotSessions(p)
    /\ MatchingAt(p) = {} /\ ErringAt(p) = {}
    /\ DecryptsAt(p) = {}
    /\ \A i \in 1..Len(sessions[p]) :
          Op("MatchesInboundSession", sessions[p][i], TRUE) \in Range(ops[p])
    /\ Op("NewInboundSessionFrom", session[p], TRUE) \in Range(ops[p])
    /\ OpsAt(p, "AddSession") = {}
\* The sessions the call of p may work on: those stored under the sender key
\* of its event and the one it created.
OwnSessions(p) ==
    IF pc[p] = "idle" THEN {}
    ELSE Range(store[evt[p].senderKey]) \cup ({session[p]} \ {NoSession})

\* C20: every step leaves the sessions stored under each sender key as they
\* are or appends one session to them; it appends only a session that is not
\* stored yet, under the sender key of the event of the acting call, when
\* that message is PreKey, the trial was inconclusive and
\* NewInboundSessionFrom created the session.  A call makes at most one
\* AddSession call, reads only the sessions stored under the sender key of
\* its event, and makes collaborator calls on and changes the state of only
\* those sessions and the session it created.
C20_StoreAppendOnly ==
    [][/\ \A k \in SenderKeys :
            \/ store'[k] = store[k]
            \/ \E p \in Procs :
                 /\ MayAddSession(p)
                 /\ k = evt[p].senderKey
                 /\ \A j \in SenderKeys : session[p] \notin Range(store[j])
                 /\ store'[k] = Append(store[k], session[p])
                 /\ \A j \in SenderKeys \ {k} : store'[j] = store[j]
       /\ \A p \in Procs :
            /\ Cardinality(OpsAt(p, "AddSession"))' <= 1
            /\ sessions'[p] # sessions[p] =>
                  \/ sessions'[p] = <<>>
                  \/ sessions'[p] = store[evt[p].senderKey]
            /\ Touched(p)' \subseteq OwnSessions(p)'
       /\ \A sid \in SessionIDs :
            ratchet'[sid] # ratchet[sid] =>
               \E p \in Procs : pc[p] # pc'[p] /\ sid \in OwnSessions(p)
      ]_vars

\* A call added the session it created to a sender key that had one stored
\* session, while the other sender key has a stored session of its own.
C20_Witness ==
    \E p \in Procs :
        /\ pc[p] # "idle"
        /\ Op("AddSession", session[p], TRUE) \in Range(ops[p])
        /\ Len(sessions[p]) = 1
        /\ store[evt[p].senderKey] = Append(sessions[p], session[p])
        /\ \E k \in SenderKeys \ {evt[p].senderKey} : store[k] # <<>>

\* A step of the call in progress in goroutine p.
Step(p) ==
    \/ GetSessions(p) \/ RangeSessions(p) \/ MatchesInboundSession(p)
    \/ SessionDecrypt(p) \/ NewInboundSessionFrom(p) \/ RemoveOneTimeKeys(p)
    \/ SaveAccount(p) \/ AddSession(p) \/ NewSessionDecrypt(p)
\* The goroutines with a call in progress for sender key k.
InProgressFor(k) == {p \in Procs : InProgress(p) /\ evt[p].senderKey = k}
\* At most one call is in progress for each sender key.
AtMostOnePerKey == \A k \in SenderKeys : Cardinality(InProgressFor(k)) <= 1
\* This step starts a call for a sender key that a call is in progress for.
UnserializedStart ==
    \E p \in Procs :
        /\ pc[p] = "idle" /\ pc'[p] # "idle"
        /\ InProgressFor(evt'[p].senderKey) # {}
\* Two calls each created a session from the same one-time key, and each
\* removed the key from the account.
DoubleConsumption(p, q) ==
    /\ p # q /\ pc[p] # "idle" /\ pc[q] # "idle"
    /\ evt[p].olmType = OlmMsgTypePreKey
    /\ evt[p].body = evt[q].body
    /\ Op("NewInboundSessionFrom", session[p], TRUE) \in Range(ops[p])
    /\ Op("NewInboundSessionFrom", session[q], TRUE) \in Range(ops[q])
    /\ session[p] # session[q]
    /\ OpsAt(p, "SaveAccount") # {} /\ OpsAt(q, "SaveAccount") # {}
\* Two calls whose steps interleaved each called Decrypt on the stored
\* session sid.
SameSessionDecrypt(p, q, sid) ==
    /\ p # q /\ pc[p] # "idle" /\ pc[q] # "idle"
    /\ sid \in Range(store[evt[p].senderKey])
    /\ evt[p].senderKey = evt[q].senderKey
    /\ \E i \in DecryptsAt(p) : ops[p][i].sid = sid
    /\ \E i \in DecryptsAt(q) : ops[q][i].sid = sid
    /\ ratchet[sid] >= 2

\* C12: the core takes no lock: whatever the other goroutine does, the next
\* step of a call in progress can be taken.  Serialization by sender key is
\* a precondition the core preserves and does not establish: when at most
\* one call is in progress for each sender key, it stays so after every step
\* that is not the start of a call for a sender key with a call in progress.
\* Without it, two calls for one sender key interleave: both call Decrypt on
\* the same stored session, and both create a session from the same PreKey
\* ciphertext, consuming its one-time key twice.
C12_NoLockSerializationIsPrecondition ==
    [][/\ \A p \in Procs : InProgress(p) => ENABLED Step(p)
       /\ (AtMostOnePerKey /\ ~UnserializedStart) => AtMostOnePerKey'
      ]_vars

\* Two interleaved calls for the same PreKey ciphertext both bootstrapped a
\* session from its one-time key.
C12_Witness == \E p, q \in Procs : DoubleConsumption(p, q)

\* Two interleaved calls for the same sender key both called Decrypt on the
\* same stored session.
C12_WitnessSameSession ==
    \E p, q \in Procs : \E sid \in SessionIDs : SameSessionDecrypt(p, q, sid)

\* Serialized calls never consume a one-time key twice and never call
\* Decrypt on a stored session from two calls at once.
C12_SerializedIsSafe ==
    /\ AtMostOnePerKey
    /\ ~C12_Witness
    /\ ~C12_WitnessSameSession

====
